---- MODULE Spec2Model ----
(***************************************************************************)
(* Grid restriction and observed order of convergence of the snake         *)
(* post-processing toolkit (library/field.py and                           *)
(* scripts/validation/plotGridConvergence.py).                             *)
(*                                                                         *)
(* Coordinates are integers counted in units of the absolute tolerance     *)
(* (1.0E-06), so that two coordinates are shared when they differ by at    *)
(* most Atol units.  Nodal values are integers and the arithmetic on them  *)
(* is exact.  A 2d array is a sequence of rows; the empty sequence is the  *)
(* 1d empty array numpy.array([]).                                         *)
(***************************************************************************)
EXTENDS Integers, Sequences, FiniteSets, TLC

VARIABLES pc, input, field, other, coarse, medium, fine, grid, ratio, stride, norm, out

vars == <<pc, input, field, other, coarse, medium, fine, grid, ratio, stride, norm, out>>

(* ------------------------------ bounds --------------------------------- *)
MaxNx == 2
MaxNy == 2
MaxTx == 2
MaxTy == 2
MaxCoord == 2
MaxSeed == 2
MaxStride == 2
MaxVal == 2
MaxRatio == 3
MaxOffset == 1
MaxExtra == 1
MaxStep == 2
MaxName == 3
MaxEntries == 2
MaxLen == 6
MaxForce == 2
MaxOrder == 2

(* -------------------------- program constants -------------------------- *)
Atol == 1

Coords == 0..MaxCoord
Ratios == 2..MaxRatio
Values == 0..MaxVal
Seeds == 0..MaxSeed
None == "None"

(* ------------------------------ helpers -------------------------------- *)
Abs(v) == IF v < 0 THEN -v ELSE v

SeqsUpTo(n, S) == UNION {[1..m -> S] : m \in 1..n}

\* a[::k]
Strided(a, k) == [i \in 1..((Len(a) + k - 1) \div k) |-> a[(i - 1) * k + 1]]

\* numpy.nonzero(mask): the indices of the true entries, in increasing order
RECURSIVE NonzeroFrom(_, _)
NonzeroFrom(mask, i) ==
  IF i > Len(mask) THEN <<>>
  ELSE IF mask[i] THEN <<i>> \o NonzeroFrom(mask, i + 1)
       ELSE NonzeroFrom(mask, i + 1)

Nonzero(mask) == NonzeroFrom(mask, 1)

\* a[mask] for a 1d array a and a boolean mask of the same length
BoolIndex(a, mask) ==
  LET idx == Nonzero(mask)
  IN  [k \in 1..Len(idx) |-> a[idx[k]]]

\* numpy.random.rand(ny, nx): one array per seed; seed 0 gives zeros
Rand(seed, ny, nx) ==
  [j \in 1..ny |-> [i \in 1..nx |-> (seed * ((j - 1) * nx + i)) % (MaxVal + 1)]]

NewField(x, y, values, time_step, label) ==
  [x |-> x, y |-> y, values |-> values, time_step |-> time_step, label |-> label]

NoField == NewField(<<>>, <<>>, <<>>, None, None)

(* --------------------------- Field.restriction ------------------------- *)
\* mutant: numpy.all in place of numpy.any
intersection_all(a, b, atol) ==
  [i \in 1..Len(a) |-> \A j \in 1..Len(b) : Abs(a[i] - b[j]) <= atol]

\* mutant: a strict comparison with the tolerance
intersection_strict(a, b, atol) ==
  [i \in 1..Len(a) |-> \E j \in 1..Len(b) : Abs(a[i] - b[j]) < atol]

\* numpy.any(numpy.abs(a-b[:, numpy.newaxis]) <= atol, axis=0)
intersection(a, b, atol) ==
  [i \in 1..Len(a) |-> \E j \in 1..Len(b) : Abs(a[i] - b[j]) <= atol]

\* mutant: every row kept, whatever mask_y
Rows_allrows(values, mask_x, mask_y) ==
  LET ix == Nonzero(mask_x)
  IN  [k \in 1..Len(mask_y) |-> [l \in 1..Len(ix) |-> values[k][ix[l]]]]

\* numpy.array([values[j][mask_x] for j in xrange(y.size) if mask_y[j]])
Rows(values, mask_x, mask_y) ==
  LET ix == Nonzero(mask_x)
      iy == Nonzero(mask_y)
  IN  [k \in 1..Len(iy) |-> [l \in 1..Len(ix) |-> values[iy[k]][ix[l]]]]

\* mutant: both masks computed from the x-stations of the coarse grid
Field_restriction_samegrid(f, g, atol) ==
  LET mask_x == intersection(f.x, g[1], atol)
      mask_y == intersection(f.y, g[1], atol)
  IN  NewField(BoolIndex(f.x, mask_x), BoolIndex(f.y, mask_y),
               Rows(f.values, mask_x, mask_y),
               f.time_step, f.label \o "-restricted")

Field_restriction(f, g, atol) ==
  LET mask_x == intersection(f.x, g[1], atol)
      mask_y == intersection(f.y, g[2], atol)
  IN  NewField(BoolIndex(f.x, mask_x), BoolIndex(f.y, mask_y),
               Rows(f.values, mask_x, mask_y),
               f.time_step, f.label \o "-restricted")

(* ------------------ plotGridConvergence.py: restriction ---------------- *)
\* the container class Field of the script holds x, y and values only
restriction(f, g) ==
  LET mask_x == intersection(f.x, g[1], Atol)
      mask_y == intersection(f.y, g[2], Atol)
  IN  [x |-> BoolIndex(f.x, mask_x), y |-> BoolIndex(f.y, mask_y),
       values |-> Rows(f.values, mask_x, mask_y)]

(* ------------------------------ numpy arrays --------------------------- *)
RECURSIVE SumFrom(_, _)
SumFrom(a, i) == IF i > Len(a) THEN 0 ELSE a[i] + SumFrom(a, i + 1)

Sum(a) == SumFrom(a, 1)

Max(S) == CHOOSE m \in S : \A n \in S : n <= m

RECURSIVE Pow(_, _)
Pow(b, e) == IF e = 0 THEN 1 ELSE b * Pow(b, e - 1)

\* shape of an array as seen by broadcasting: the 1d empty array is (1, 0)
Shape(a) == IF Len(a) = 0 THEN <<1, 0>> ELSE <<Len(a), Len(a[1])>>

\* broadcast of two lengths; -1 when they cannot be broadcast together
Broadcast(m, n) == IF m = n THEN m ELSE IF m = 1 THEN n ELSE IF n = 1 THEN m ELSE -1

\* a - b for numpy arrays, with broadcasting; ValueError when the shapes
\* cannot be broadcast together
Subtract(a, b) ==
  LET sa == Shape(a)
      sb == Shape(b)
      rows == Broadcast(sa[1], sb[1])
      cols == Broadcast(sa[2], sb[2])
  IN  IF Len(a) = 0 /\ Len(b) = 0 THEN [ok |-> TRUE, a |-> <<>>]
      ELSE IF rows = -1 \/ cols = -1 THEN [ok |-> FALSE, a |-> <<>>]
      ELSE [ok |-> TRUE,
            a |-> [j \in 1..rows |-> [i \in 1..cols |->
                     a[IF sa[1] = 1 THEN 1 ELSE j][IF sa[2] = 1 THEN 1 ELSE i]
                   - b[IF sb[1] = 1 THEN 1 ELSE j][IF sb[2] = 1 THEN 1 ELSE i]]]]

\* mutant: the entries summed without their squares or absolute values
linalg_norm_signed(a, ord) ==
  IF ord = None
  THEN [ok |-> TRUE, root |-> 2,
        v |-> Sum([j \in 1..Len(a) |-> Sum([i \in 1..Len(a[j]) |-> a[j][i]])])]
  ELSE IF Len(a) = 0
       THEN [ok |-> FALSE, root |-> 1, v |-> 0]
       ELSE [ok |-> TRUE, root |-> 1,
             v |-> Max({Sum([i \in 1..Len(a[j]) |-> a[j][i]]) : j \in 1..Len(a)})]

\* numpy.linalg.norm(a, ord): the value is v^(1/root).
\* ord=None is the Frobenius norm, ord=inf the largest row sum of a 2d array
\* (the largest absolute value of a 1d array, ValueError when it is empty).
linalg_norm(a, ord) ==
  IF ord = None
  THEN [ok |-> TRUE, root |-> 2,
        v |-> Sum([j \in 1..Len(a) |-> Sum([i \in 1..Len(a[j]) |-> a[j][i] * a[j][i]])])]
  ELSE IF Len(a) = 0
       THEN [ok |-> FALSE, root |-> 1, v |-> 0]
       ELSE [ok |-> TRUE, root |-> 1,
             v |-> Max({Sum([i \in 1..Len(a[j]) |-> Abs(a[j][i])]) : j \in 1..Len(a)})]

norms == [L2 |-> None, Linf |-> "inf"]

(* ---------------------- observed order of convergence ------------------ *)
\* mutant: the two norms exchanged
LogRatio_swapped(n1, n2, r) ==
  IF n1.v = 0 /\ n2.v = 0 THEN [kind |-> "nan"]
  ELSE IF n1.v = 0 THEN [kind |-> "inf"]
  ELSE IF n2.v = 0 THEN [kind |-> "-inf"]
  ELSE [kind |-> "float", num |-> n2.v, den |-> n1.v, root |-> n1.root, base |-> r]

\* numpy.log(n1 / n2) / numpy.log(ratio) for two norms n1, n2 (numpy floats:
\* x/0 is inf, 0/0 is nan, log(0) is -inf, none of them raises).
\* A finite result is log(num/den) / (root * log(base)).
LogRatio(n1, n2, r) ==
  IF n1.v = 0 /\ n2.v = 0 THEN [kind |-> "nan"]
  ELSE IF n2.v = 0 THEN [kind |-> "inf"]
  ELSE IF n1.v = 0 THEN [kind |-> "-inf"]
  ELSE [kind |-> "float", num |-> n1.v, den |-> n2.v, root |-> n1.root, base |-> r]

\* mutant: the second difference taken between the fine and the coarse fields
Order_finecoarse(coarse_field, medium_field, fine_field, r, ord) ==
  LET d1 == Subtract(medium_field.values, coarse_field.values)
      d2 == Subtract(fine_field.values, coarse_field.values)
  IN  IF ~d1.ok \/ ~d2.ok THEN [kind |-> "ValueError"]
      ELSE LET n1 == linalg_norm(d1.a, ord)
               n2 == linalg_norm(d2.a, ord)
           IN  IF ~n1.ok \/ ~n2.ok THEN [kind |-> "ValueError"]
               ELSE LogRatio(n1, n2, r)

\* log(norm(medium - coarse) / norm(fine - medium)) / log(ratio)
Order(coarse_field, medium_field, fine_field, r, ord) ==
  LET d1 == Subtract(medium_field.values, coarse_field.values)
      d2 == Subtract(fine_field.values, medium_field.values)
  IN  IF ~d1.ok \/ ~d2.ok THEN [kind |-> "ValueError"]
      ELSE LET n1 == linalg_norm(d1.a, ord)
               n2 == linalg_norm(d2.a, ord)
           IN  IF ~n1.ok \/ ~n2.ok THEN [kind |-> "ValueError"]
               ELSE LogRatio(n1, n2, r)

\* plotGridConvergence.py: observed order using the L2-norm
observed_order_convergence(c, m, f, r, g) ==
  Order(restriction(c, g), restriction(m, g), restriction(f, g), r, None)

\* snake.convergence.get_observed_order(coarse, medium, fine, ratio, grid, order)
get_observed_order(c, m, f, r, g, ord) ==
  Order(Field_restriction(c, g, Atol), Field_restriction(m, g, Atol),
        Field_restriction(f, g, Atol), r, ord)

(* -------------------------- Field.get_difference ----------------------- *)
\* mutant: the sum of the two arrays in place of their difference
Subtract_plus(a, b) ==
  LET sa == Shape(a)
      sb == Shape(b)
      rows == Broadcast(sa[1], sb[1])
      cols == Broadcast(sa[2], sb[2])
  IN  IF Len(a) = 0 /\ Len(b) = 0 THEN [ok |-> TRUE, a |-> <<>>]
      ELSE IF rows = -1 \/ cols = -1 THEN [ok |-> FALSE, a |-> <<>>]
      ELSE [ok |-> TRUE,
            a |-> [j \in 1..rows |-> [i \in 1..cols |->
                     a[IF sa[1] = 1 THEN 1 ELSE j][IF sa[2] = 1 THEN 1 ELSE i]
                   + b[IF sb[1] = 1 THEN 1 ELSE j][IF sb[2] = 1 THEN 1 ELSE i]]]]

\* field_restricted.values - exact_restricted.values
Difference(a, b) == Subtract(a, b)

\* Field.get_difference(exact, mask, norm): the norm is v^(1/root)
Field_get_difference(self, exact, mask, nm) ==
  LET g == <<mask.x, mask.y>>
      field_restricted == Field_restriction(self, g, Atol)
      exact_restricted == Field_restriction(exact, g, Atol)
      d == Difference(field_restricted.values, exact_restricted.values)
  IN  IF ~d.ok THEN [kind |-> "ValueError"]
      ELSE LET n == linalg_norm(d.a, norms[nm])
           IN  IF ~n.ok THEN [kind |-> "ValueError"]
               ELSE [kind |-> "float", root |-> n.root, v |-> n.v]

(* ----------------------------- restriction spec ------------------------ *)
NoOut == [kind |-> "none"]

\* the arguments of the operations that take no field
NoInput == [kind |-> "none"]

InitRestrict ==
  /\ pc = "ready"
  /\ \E x \in SeqsUpTo(MaxNx, Coords), y \in SeqsUpTo(MaxNy, Coords), s \in Seeds :
       field = NewField(x, y, Rand(s, Len(y), Len(x)), 0, "test")
  /\ other = NoField
  /\ coarse = NoField
  /\ medium = NoField
  /\ fine = NoField
  /\ grid = <<<<>>, <<>>>>
  /\ ratio = 0
  /\ stride = 0
  /\ norm = None
  /\ out = NoOut
  /\ input = NoInput

\* FieldTest.restriction: restriction onto every k-th node of the field's grid
RestrictStrided(k) ==
  /\ pc = "ready"
  /\ stride' = k
  /\ grid' = <<Strided(field.x, k), Strided(field.y, k)>>
  /\ out' = [kind |-> "Field", f |-> Field_restriction(field, grid', Atol)]
  /\ pc' = "strided"
  /\ UNCHANGED <<input, field, other, coarse, medium, fine, ratio, norm>>

\* Field.restriction onto any grid
Restrict(tx, ty) ==
  /\ pc = "ready"
  /\ grid' = <<tx, ty>>
  /\ out' = [kind |-> "Field", f |-> Field_restriction(field, grid', Atol)]
  /\ pc' = "restricted"
  /\ UNCHANGED <<input, field, other, coarse, medium, fine, ratio, stride, norm>>

NextRestrict ==
  \/ \E k \in 1..MaxStride : RestrictStrided(k)
  \/ \E tx \in SeqsUpTo(MaxTx, Coords), ty \in SeqsUpTo(MaxTy, Coords) : Restrict(tx, ty)

SpecRestrict == InitRestrict /\ [][NextRestrict]_vars

(* -------------------------- restriction properties --------------------- *)
\* a[::k, ::k]
Strided2(a, k) == [j \in 1..((Len(a) + k - 1) \div k) |-> Strided(a[(j - 1) * k + 1], k)]

\* the nodes of a are pairwise more than atol apart
Separated(a, atol) ==
  \A i, j \in 1..Len(a) : i # j => Abs(a[i] - a[j]) > atol

\* number of nodes of a within atol of the station t
Matches(a, t, atol) == Cardinality({i \in 1..Len(a) : Abs(a[i] - t) <= atol})

\* a and b have the same length and agree within atol element by element
AllClose(a, b, atol) ==
  /\ Len(a) = Len(b)
  /\ \A i \in 1..Len(a) : Abs(a[i] - b[i]) <= atol

Restricted == pc \in {"strided", "restricted"}

\* C1 (as stated): for any field and any stride k >= 1, the restriction onto
\* (x[::k], y[::k]) has x = x[::k], y = y[::k] and values = values[::k, ::k].
C1_AnyField ==
  pc = "strided" =>
    /\ out.kind = "Field"
    /\ out.f.x = Strided(field.x, stride)
    /\ out.f.y = Strided(field.y, stride)
    /\ out.f.values = Strided2(field.values, stride)

\* C1 (amended): the same, for a field whose nodes are pairwise more than the
\* tolerance apart in each direction.
C1_SeparatedField ==
  (pc = "strided" /\ Separated(field.x, Atol) /\ Separated(field.y, Atol)) =>
    /\ out.kind = "Field"
    /\ out.f.x = Strided(field.x, stride)
    /\ out.f.y = Strided(field.y, stride)
    /\ out.f.values = Strided2(field.values, stride)

C1_Witness ==
  /\ pc = "strided" /\ stride = 2
  /\ Separated(field.x, Atol) /\ Separated(field.y, Atol)
  /\ Len(field.x) = 2 /\ Len(field.y) = 2
  /\ field.values[1][1] # field.values[1][2]
  /\ out.f.values = <<<<field.values[1][1]>>>>

\* C2: restricting a field onto its own grid returns a field with the same
\* coordinates and the same values.
C2_Identity ==
  (Restricted /\ grid = <<field.x, field.y>>) =>
    /\ out.kind = "Field"
    /\ out.f.x = field.x
    /\ out.f.y = field.y
    /\ out.f.values = field.values

C2_Witness ==
  /\ pc = "restricted" /\ grid = <<field.x, field.y>>
  /\ Len(field.x) = 2 /\ Len(field.y) = 2
  /\ ~Separated(field.x, Atol)
  /\ field.values[1][1] # field.values[1][2]
  /\ out.f.values = field.values

\* every target station has exactly one node of the field within atol
Coincident(f, g, atol) ==
  /\ \A i \in 1..Len(g[1]) : Matches(f.x, g[1][i], atol) = 1
  /\ \A j \in 1..Len(g[2]) : Matches(f.y, g[2][j], atol) = 1

\* C3 (as stated): a returned field has x and y equal to the target stations
\* within the tolerance, element by element in the order of the targets, and
\* values of shape (len(target_y), len(target_x)), for every target grid
\* (checked here on the target grids whose stations each coincide with
\* exactly one node of the field).
C3_ReturnsTargetGrid ==
  (Restricted /\ out.kind = "Field" /\ Coincident(field, grid, Atol)) =>
    /\ AllClose(out.f.x, grid[1], Atol)
    /\ AllClose(out.f.y, grid[2], Atol)
    /\ Len(out.f.values) = Len(grid[2])
    /\ \A j \in 1..Len(out.f.values) : Len(out.f.values[j]) = Len(grid[1])

\* C4 (as stated): when a target station has no node of the field within the
\* tolerance, the restriction fails with GridMismatchError; it never returns
\* a field shorter than the target grid.
C4_NoMatchFails ==
  (Restricted /\ (\/ \E i \in 1..Len(grid[1]) : Matches(field.x, grid[1][i], Atol) = 0
                  \/ \E j \in 1..Len(grid[2]) : Matches(field.y, grid[2][j], Atol) = 0)) =>
    /\ out.kind = "GridMismatchError"
    /\ out.kind # "Field"

\* C5 (as stated): when a target station has more than one node of the field
\* within the tolerance, the restriction fails with GridMismatchError, and a
\* successful call selects exactly one node per (matched) target station.
C5_AmbiguousFails ==
  /\ (Restricted /\ (\/ \E i \in 1..Len(grid[1]) : Matches(field.x, grid[1][i], Atol) > 1
                     \/ \E j \in 1..Len(grid[2]) : Matches(field.y, grid[2][j], Atol) > 1)) =>
       out.kind = "GridMismatchError"
  /\ (Restricted /\ out.kind = "Field") =>
       /\ \A i \in 1..Len(grid[1]) :
            Matches(field.x, grid[1][i], Atol) >= 1 => Matches(out.f.x, grid[1][i], Atol) = 1
       /\ \A j \in 1..Len(grid[2]) :
            Matches(field.y, grid[2][j], Atol) >= 1 => Matches(out.f.y, grid[2][j], Atol) = 1

(* ------------------------ observed order spec -------------------------- *)
\* numpy.linspace: n stations more than the tolerance apart
linspace(n) == [i \in 1..n |-> (i - 1) * (Atol + 1)]

\* numpy.ones: the station 1.0 lies just above the range [0, 1) of
\* numpy.random.random, within the tolerance of its largest values
ones == MaxCoord + 1

\* a = numpy.ones(n); a[::step] = g
Fill(g, n, step) ==
  [i \in 1..n |-> IF (i - 1) % step = 0 THEN g[((i - 1) \div step) + 1] ELSE ones]

\* a + c for an array a and a scalar c
AddScalar(a, c) == [j \in 1..Len(a) |-> [i \in 1..Len(a[j]) |-> a[j][i] + c]]

\* test_same_grid: three fields on the same grid, restricted onto this grid
\* or onto every k-th node of it
InitSameGrid ==
  \E nx \in 1..MaxNx, ny \in 1..MaxNy, s1 \in Seeds, s3 \in Seeds,
     r \in Ratios, k \in 1..MaxStride :
    \E v \in [1..ny -> [1..nx -> Values]] :
      LET x == linspace(nx)
          y == linspace(ny)
      IN  /\ coarse = NewField(x, y, Rand(s1, ny, nx), 0, "field1")
          /\ medium = NewField(x, y, v, 0, "field2")
          /\ fine = NewField(x, y, Rand(s3, ny, nx), 0, "field3")
          /\ grid = <<Strided(x, k), Strided(y, k)>>
          /\ ratio = r

\* test_three_grids(nx, ny, ratio, offset)
InitThreeGrids ==
  \E nx \in 1..MaxNx, ny \in 1..MaxNy, r \in Ratios, offset \in 0..MaxOffset, s \in Seeds :
    \E gx \in [1..nx -> Coords], gy \in [1..ny -> Coords] :
      LET fv == Rand(s, ny * Pow(r, offset + 2), nx * Pow(r, offset + 2))
      IN  /\ grid = <<gx, gy>>
          /\ ratio = r
          /\ fine = NewField(Fill(gx, nx * Pow(r, offset + 2), Pow(r, offset + 2)),
                             Fill(gy, ny * Pow(r, offset + 2), Pow(r, offset + 2)),
                             fv, None, "fine")
          /\ medium = NewField(Fill(gx, nx * Pow(r, offset + 1), Pow(r, offset + 1)),
                               Fill(gy, ny * Pow(r, offset + 1), Pow(r, offset + 1)),
                               AddScalar(Strided2(fv, r), 1), None, "medium")
          /\ coarse = NewField(Fill(gx, nx * Pow(r, offset), Pow(r, offset)),
                               Fill(gy, ny * Pow(r, offset), Pow(r, offset)),
                               AddScalar(Strided2(fv, r * r), 1 + r), None, "coarse")

InitOrder ==
  /\ pc = "ready"
  /\ field = NoField
  /\ other = NoField
  /\ stride = 0
  /\ norm = None
  /\ out = NoOut
  /\ input = NoInput
  /\ (InitSameGrid \/ InitThreeGrids)

\* plotGridConvergence.py: observed_order_convergence
ObservedOrderConvergence ==
  /\ pc = "ready"
  /\ norm' = "L2"
  /\ out' = observed_order_convergence(coarse, medium, fine, ratio, grid)
  /\ pc' = "script"
  /\ UNCHANGED <<input, field, other, coarse, medium, fine, grid, ratio, stride>>

\* convergence.get_observed_order with the norm nm
GetObservedOrder(nm) ==
  /\ pc = "ready"
  /\ norm' = nm
  /\ out' = get_observed_order(coarse, medium, fine, ratio, grid, norms[nm])
  /\ pc' = "library"
  /\ UNCHANGED <<input, field, other, coarse, medium, fine, grid, ratio, stride>>

NextOrder ==
  \/ ObservedOrderConvergence
  \/ \E nm \in {"L2", "Linf"} : GetObservedOrder(nm)

SpecOrder == InitOrder /\ [][NextOrder]_vars

(* ------------------------ observed order properties ------------------- *)
Done == pc \in {"script", "library"}

\* the three fields restricted onto the mask grid
Rc == restriction(coarse, grid)
Rm == restriction(medium, grid)
Rf == restriction(fine, grid)

\* a and b are arrays of the same shape, with at least one entry, and
\* a = b + c entry by entry
EqualsPlus(a, b, c) ==
  /\ Len(a) > 0 /\ Len(a) = Len(b)
  /\ \A j \in 1..Len(a) : Len(a[j]) > 0 /\ Len(a[j]) = Len(b[j])
  /\ \A j \in 1..Len(a) : \A i \in 1..Len(a[j]) : a[j][i] = b[j][i] + c

IsZero(a) == \A j \in 1..Len(a) : \A i \in 1..Len(a[j]) : a[j][i] = 0

\* the returned order is the integer p >= 0:
\* log(num/den) / (root * log(base)) = p
IsOrder(o, p) ==
  /\ o.kind = "float"
  /\ o.num = o.den * Pow(o.base, o.root * p)

SameGrid ==
  /\ coarse.x = medium.x /\ medium.x = fine.x
  /\ coarse.y = medium.y /\ medium.y = fine.y

ZeroRandomZero ==
  /\ Done /\ SameGrid /\ grid = <<coarse.x, coarse.y>>
  /\ IsZero(coarse.values) /\ IsZero(fine.values)

\* C6: for a ratio r in {2, 3}, when on the mask grid the medium solution is
\* the fine solution plus 1 and the coarse solution is the fine solution plus
\* 1 + r, the observed order is exactly 1 in the L2 and in the Linf norm,
\* with the coarsest field on the mask grid or on a grid r times finer.
C6_FirstOrder ==
  (Done /\ EqualsPlus(Rm.values, Rf.values, 1) /\ EqualsPlus(Rc.values, Rf.values, 1 + ratio)) =>
    IsOrder(out, 1)

C6_Witness ==
  /\ pc = "library" /\ norm = "Linf" /\ ratio = 3
  /\ Len(coarse.x) = 3 * Len(grid[1]) /\ Len(grid[1]) = 2 /\ Len(grid[2]) = 2
  /\ ~IsZero(fine.values)
  /\ EqualsPlus(Rm.values, Rf.values, 1) /\ EqualsPlus(Rc.values, Rf.values, 1 + ratio)
  /\ IsOrder(out, 1)

\* C7: three fields on the same grid, the first and the last identically
\* zero and the middle one not identically zero: the observed order is
\* exactly 0 for every ratio, in the L2 and in the Linf norm.
C7_ZeroOrder ==
  (ZeroRandomZero /\ ~IsZero(medium.values)) => IsOrder(out, 0)

C7_Witness ==
  /\ ZeroRandomZero /\ pc = "script" /\ ratio = 3
  /\ Len(medium.x) = 2 /\ Len(medium.y) = 2
  /\ medium.values[1][1] # medium.values[2][2] /\ medium.values[1][2] = 0
  /\ IsOrder(out, 0)

\* C8 (as stated): three fields on the same grid, the first and the last
\* identically zero, the middle one arbitrary: observed_order raises
\* DegenerateConvergenceError for every ratio and every norm (stated here for
\* the middle fields that are not identically zero).
C8_ZeroOrderRaises ==
  (ZeroRandomZero /\ ~IsZero(medium.values)) => out.kind = "DegenerateConvergenceError"

\* C8 (amended): with a middle field that is not identically zero, no error
\* is raised: the call returns a finite value, the one of log(1)/log(ratio).
C8_ZeroOrderReturns ==
  (ZeroRandomZero /\ ~IsZero(medium.values)) =>
    /\ out.kind \notin {"DegenerateConvergenceError", "ValueError"}
    /\ out.kind = "float" /\ out.num = out.den /\ out.base = ratio

C8_Witness ==
  /\ ZeroRandomZero /\ pc = "library" /\ norm = "Linf" /\ ratio = 2
  /\ Len(medium.x) = 2 /\ ~IsZero(medium.values)
  /\ out.kind = "float" /\ out.num = out.den

\* C9 (as stated): when the restricted fine and medium fields are identical
\* on the mask grid, observed_order fails with DegenerateConvergenceError and
\* returns neither inf nor NaN; when norm(d2) > 0 it returns a finite number.
C9_DegenerateFineMedium ==
  /\ (Done /\ EqualsPlus(Rf.values, Rm.values, 0)) =>
       out.kind = "DegenerateConvergenceError"
  /\ (Done /\ Subtract(Rf.values, Rm.values).ok
           /\ linalg_norm(Subtract(Rf.values, Rm.values).a, None).v > 0
           /\ Subtract(Rm.values, Rc.values).ok) =>
       out.kind = "float"

\* C10 (as stated): when the restricted coarse and medium fields are equal on
\* the mask grid and the fine field differs from the medium one,
\* observed_order fails with DegenerateConvergenceError and returns no
\* infinite value.
C10_DegenerateCoarseMedium ==
  (Done /\ EqualsPlus(Rm.values, Rc.values, 0)
        /\ Subtract(Rf.values, Rm.values).ok /\ ~EqualsPlus(Rf.values, Rm.values, 0)) =>
    /\ out.kind = "DegenerateConvergenceError"
    /\ out.kind \notin {"inf", "-inf"}

(* ------------------------------ field spec ----------------------------- *)
\* a[::-1]
Reversed(a) == [i \in 1..Len(a) |-> a[Len(a) + 1 - i]]

\* the field whose grid is used as a mask
MaskField == [x |-> grid[1], y |-> grid[2]]

\* numpy.allclose(a, b, atol=atol) for two 1d arrays, with broadcasting; the
\* relative term rtol*abs(b) is below one unit at the magnitudes of Coords
allclose(a, b, atol) ==
  LET n == Broadcast(Len(a), Len(b))
  IN  IF n = -1 THEN [ok |-> FALSE, v |-> FALSE]
      ELSE [ok |-> TRUE,
            v |-> \A i \in 1..n : Abs(a[IF Len(a) = 1 THEN 1 ELSE i]
                                     - b[IF Len(b) = 1 THEN 1 ELSE i]) <= atol]

\* mutant: the difference stored in self.values, self returned
Field_subtract_inplace(self, o, label) ==
  LET d == Subtract(self.values, o.values)
  IN  IF ~d.ok THEN [kind |-> "ValueError"]
      ELSE [kind |-> "Field", f |-> [self EXCEPT !.values = d.a],
            shared |-> {"x", "y", "values"}]

\* library/field.py: Field.subtract(other, label). The new field is built on
\* the arrays self.x and self.y themselves and on a new array of values.
Field_subtract(self, o, label) ==
  LET cx == allclose(self.x, o.x, Atol)
      cy == allclose(self.y, o.y, Atol)
  IN  IF ~cx.ok THEN [kind |-> "ValueError"]
      ELSE IF ~cx.v THEN [kind |-> "AssertionError"]
      ELSE IF ~cy.ok THEN [kind |-> "ValueError"]
      ELSE IF ~cy.v THEN [kind |-> "AssertionError"]
      ELSE IF Shape(self.values) # Shape(o.values) THEN [kind |-> "AssertionError"]
      ELSE [kind |-> "Field",
            f |-> NewField(self.x, self.y, Subtract(self.values, o.values).a,
                           self.time_step, IF label = None THEN self.label ELSE label),
            shared |-> {"x", "y"}]

\* scripts/PetIBM/ioPetIBM.py: Field.subtract(other, label), without checks
ioPetIBM_Field_subtract(self, o, label) ==
  LET d == Subtract(self.values, o.values)
  IN  IF ~d.ok THEN [kind |-> "ValueError"]
      ELSE [kind |-> "Field",
            f |-> NewField(self.x, self.y, d.a, self.time_step, label),
            shared |-> {"x", "y"}]

\* BarbaGroupSimulation.subtract(other, field_name): the field returned by
\* Field.subtract is dropped; an exception of Field.subtract propagates
BarbaGroupSimulation_subtract(self, o) ==
  LET r == Field_subtract(self, o, None)
  IN  IF r.kind = "Field" THEN [kind |-> "None"] ELSE r

\* mutant: a mask that selects every entry returns the array itself
BoolIndexIsView_whole(mask) == \A i \in 1..Len(mask) : mask[i]

\* a[mask] with a boolean mask is advanced indexing: the result is a new
\* array, never a view of a
BoolIndexIsView(mask) == FALSE

\* mutant: the restriction carried out in the storage of the field itself
Field_restriction_shared_inplace(f, g, atol) == {"x", "y", "values"}

\* the attributes of the restricted field held in the storage of the field's
\* own attribute; numpy.array([...]) always builds a new array of values
Field_restriction_shared(f, g, atol) ==
  (IF BoolIndexIsView(intersection(f.x, g[1], atol)) THEN {"x"} ELSE {})
    \cup (IF BoolIndexIsView(intersection(f.y, g[2], atol)) THEN {"y"} ELSE {})

\* the field f after a call that returned r: an attribute of f whose storage
\* the returned field shares holds what the returned field holds
Aliased(f, r) ==
  IF r.kind # "Field" THEN f
  ELSE [a \in DOMAIN f |-> IF a \in r.shared THEN r.f[a] ELSE f[a]]

\* a + c for a 1d array a and a scalar c
AddScalar1(a, c) == [i \in 1..Len(a) |-> a[i] + c]

\* a field and a second field, with a mask grid; the second field has the
\* x-stations of the first; its y-stations are those of the first, stored in
\* the same or in the reverse order, or moved by more than the tolerance
InitField ==
  /\ pc = "ready"
  /\ \E x \in SeqsUpTo(MaxNx, Coords), ny \in 1..MaxNy, s \in Seeds, s2 \in Seeds,
        variant \in {"same", "reversed", "shifted"}, k \in 1..MaxStride :
       \E tx \in SeqsUpTo(MaxTx, Coords) \cup {x} :
         LET y == linspace(ny)
             ox == IF variant = "reversed" THEN Reversed(x) ELSE x
             oy == IF variant = "reversed" THEN Reversed(y)
                   ELSE IF variant = "shifted" THEN AddScalar1(y, Atol + 1) ELSE y
         IN  /\ field = NewField(x, y, Rand(s, ny, Len(x)), 0, "test")
             /\ other = NewField(ox, oy, Rand(s2, Len(oy), Len(ox)), 0, "exact")
             /\ grid = <<tx, Strided(y, k)>>
  /\ coarse = NoField
  /\ medium = NoField
  /\ fine = NoField
  /\ ratio = 0
  /\ stride = 0
  /\ norm = None
  /\ out = NoOut
  /\ input = NoInput

\* field.get_difference(other, mask, norm=nm)
GetDifference(nm) ==
  /\ pc = "ready"
  /\ norm' = nm
  /\ out' = Field_get_difference(field, other, MaskField, nm)
  /\ pc' = "difference"
  /\ UNCHANGED <<input, field, other, coarse, medium, fine, grid, ratio, stride>>

\* field.restriction([mask.x, mask.y])
RestrictOnMask ==
  /\ pc = "ready"
  /\ out' = [kind |-> "Field", f |-> Field_restriction(field, grid, Atol),
             shared |-> Field_restriction_shared(field, grid, Atol)]
  /\ field' = Aliased(field, out')
  /\ pc' = "restriction"
  /\ UNCHANGED <<input, other, coarse, medium, fine, grid, ratio, stride, norm>>

\* observed_order_convergence with field as coarse and fine solution and
\* other as medium solution
ObservedOrderOnMask(r) ==
  /\ pc = "ready"
  /\ ratio' = r
  /\ out' = observed_order_convergence(field, other, field, r, grid)
  /\ pc' = "order"
  /\ UNCHANGED <<input, field, other, coarse, medium, fine, grid, stride, norm>>

\* library/field.py: field.subtract(other)
FieldSubtract ==
  /\ pc = "ready"
  /\ out' = Field_subtract(field, other, None)
  /\ field' = Aliased(field, out')
  /\ pc' = "subtract"
  /\ UNCHANGED <<input, other, coarse, medium, fine, grid, ratio, stride, norm>>

\* scripts/PetIBM/ioPetIBM.py: field.subtract(other)
IoFieldSubtract ==
  /\ pc = "ready"
  /\ out' = ioPetIBM_Field_subtract(field, other, None)
  /\ field' = Aliased(field, out')
  /\ pc' = "ioPetIBM"
  /\ UNCHANGED <<input, other, coarse, medium, fine, grid, ratio, stride, norm>>

\* simulation.subtract(other, field_name)
SimulationSubtract ==
  /\ pc = "ready"
  /\ out' = BarbaGroupSimulation_subtract(field, other)
  /\ field' = Aliased(field, Field_subtract(field, other, None))
  /\ pc' = "simulation"
  /\ UNCHANGED <<input, other, coarse, medium, fine, grid, ratio, stride, norm>>

\* a with its entry i set to -1
Write1(a, i) == [a EXCEPT ![i] = -1]

\* a with its entry [j][i] set to -1
Write2(a, j, i) == [a EXCEPT ![j][i] = -1]

\* the caller writes -1 to one entry of an array of the returned field: an
\* array held in the storage of the input field changes there as well
WriteReturned(attr, j, i) ==
  /\ pc \in {"restriction", "subtract", "ioPetIBM"}
  /\ out.kind = "Field"
  /\ IF attr = "values"
     THEN j \in 1..Len(out.f.values) /\ i \in 1..Len(out.f.values[j])
     ELSE j = 1 /\ i \in 1..Len(out.f[attr])
  /\ LET w == IF attr = "values" THEN Write2(out.f.values, j, i)
              ELSE Write1(out.f[attr], i)
     IN  /\ out' = [out EXCEPT !.f[attr] = w]
         /\ field' = IF attr \in out.shared THEN [field EXCEPT ![attr] = w] ELSE field
  /\ stride' = i
  /\ pc' = "written"
  /\ UNCHANGED <<input, other, coarse, medium, fine, grid, ratio, norm>>

NextField ==
  \/ \E nm \in {"L2", "Linf"} : GetDifference(nm)
  \/ RestrictOnMask
  \/ \E r \in Ratios : ObservedOrderOnMask(r)
  \/ FieldSubtract
  \/ IoFieldSubtract
  \/ SimulationSubtract
  \/ \E attr \in {"x", "y", "values"}, j \in 1..MaxNy, i \in 1..(MaxNx + MaxNy) :
       WriteReturned(attr, j, i)

SpecField == InitField /\ [][NextField]_vars

(* ---------------------------- field properties ------------------------- *)
SameField(a, b) == a.x = b.x /\ a.y = b.y /\ a.values = b.values

\* C11: the difference of a field with itself, masked by its own grid, is
\* exactly 0.0 in the L2 and in the Linf norm.
C11_Reflexive ==
  (pc = "difference" /\ SameField(other, field) /\ grid = <<field.x, field.y>>) =>
    (out.kind = "float" /\ out.v = 0)

C11_Witness ==
  /\ pc = "difference" /\ SameField(other, field) /\ grid = <<field.x, field.y>>
  /\ norm = "Linf" /\ Len(field.x) = 2 /\ Len(field.y) = 2
  /\ field.values[1][1] # 0 /\ field.values[1][1] # field.values[1][2]
  /\ out.kind = "float" /\ out.v = 0

\* the values of the nodes of f within atol of the station (gx, gy)
ValuesAt(f, gx, gy) ==
  {f.values[j][i] : <<i, j>> \in {n \in (1..Len(f.x)) \X (1..Len(f.y)) :
                                    /\ Abs(f.x[n[1]] - gx) <= Atol
                                    /\ Abs(f.y[n[2]] - gy) <= Atol}}

MaskNodes == (1..Len(grid[1])) \X (1..Len(grid[2]))

\* f has exactly one node within atol of the station (gx, gy)
OneNodeAt(f, gx, gy) == Matches(f.x, gx, Atol) = 1 /\ Matches(f.y, gy, Atol) = 1

\* at some node of the mask grid a and b both have exactly one node, and the
\* values of the two nodes differ
DifferOnMask(a, b) ==
  \E n \in MaskNodes :
    LET gx == grid[1][n[1]]
        gy == grid[2][n[2]]
    IN  /\ OneNodeAt(a, gx, gy) /\ OneNodeAt(b, gx, gy)
        /\ ValuesAt(a, gx, gy) # ValuesAt(b, gx, gy)

\* at every node of the mask grid a and b both have exactly one node, and
\* the values of the two nodes are equal
EqualOnMask(a, b) ==
  \A n \in MaskNodes :
    LET gx == grid[1][n[1]]
        gy == grid[2][n[2]]
    IN  /\ OneNodeAt(a, gx, gy) /\ OneNodeAt(b, gx, gy)
        /\ ValuesAt(a, gx, gy) = ValuesAt(b, gx, gy)

IsZeroNorm(o) == o.kind = "float" /\ o.v = 0

\* C12 (as stated): the error norm is 0.0 if and only if the two fields have
\* equal values at every node of the mask grid; it is never 0.0 for two
\* fields that differ at some node of the mask grid.
C12_ZeroIffEqual ==
  pc = "difference" =>
    /\ IsZeroNorm(out) => ~DifferOnMask(field, other)
    /\ EqualOnMask(field, other) => IsZeroNorm(out)

\* the restricted difference whose norm get_difference returns
RestrictedDifference ==
  Difference(Field_restriction(field, grid, Atol).values,
             Field_restriction(other, grid, Atol).values)

MaxAbs(a) == Max({Abs(a[j][i]) : <<j, i>> \in {n \in (1..Len(a)) \X (1..Len(a[1])) : TRUE}})

SumSquares(a) == Sum([j \in 1..Len(a) |-> Sum([i \in 1..Len(a[j]) |-> a[j][i] * a[j][i]])])

\* C13 (as stated): with norm='Linf' the norm of the 2d difference array is
\* the largest absolute value of its entries; with norm='L2' it is the
\* Euclidean norm of the flattened array.
C13_NormOfEntries ==
  (pc = "difference" /\ out.kind = "float"
     /\ Len(RestrictedDifference.a) > 0 /\ Len(RestrictedDifference.a[1]) > 0) =>
    /\ norm = "Linf" => (out.root = 1 /\ out.v = MaxAbs(RestrictedDifference.a))
    /\ norm = "L2" => (out.root = 2 /\ out.v = SumSquares(RestrictedDifference.a))

\* the field f stored with its x-stations in the order px and its y-stations
\* in the order py, the values following their stations
Permuted(f, px, py) ==
  NewField([i \in 1..Len(f.x) |-> f.x[px[i]]], [j \in 1..Len(f.y) |-> f.y[py[j]]],
           [j \in 1..Len(f.y) |-> [i \in 1..Len(f.x) |-> f.values[py[j]][px[i]]]],
           f.time_step, f.label)

\* C14 (as stated): the error norm does not depend on the order in which a
\* field stores its stations (stated here for the mask grids whose stations
\* each coincide with exactly one node of both fields).
C14_OrderIndependent ==
  (pc = "difference" /\ Coincident(field, grid, Atol) /\ Coincident(other, grid, Atol)) =>
    \A px \in Permutations(1..Len(field.x)), py \in Permutations(1..Len(field.y)) :
      Field_get_difference(Permuted(field, px, py), other, MaskField, norm) = out

\* C15: restriction, get_difference and observed_order_convergence have no
\* side effect on their arguments: after any of these calls, returned or
\* raised, the two fields and the mask grid are what they were before it.
C15_NoSideEffects ==
  [][pc' \in {"restriction", "difference", "order"} =>
       (field' = field /\ other' = other /\ grid' = grid)]_vars

C15_Witness ==
  /\ pc = "difference"
  /\ out.kind = "ValueError"
  /\ Len(field.x) = 2
  /\ field.values[1][1] # 0

\* C16: the field returned by restriction shares no storage with its input:
\* a write to its x, y or values leaves the input field as it was, also when
\* the target grid is the input's own grid.
C16_FreshStorage ==
  [][(pc = "restriction" /\ pc' = "written") => field' = field]_vars

C16_Witness ==
  /\ pc = "written"
  /\ out.f.label = "test-restricted"
  /\ grid = <<field.x, field.y>>
  /\ Len(field.x) = 2
  /\ out.f.x # field.x
  /\ out.f.y = field.y
  /\ out.f.values = field.values

C18_SubtractInPlace ==
  [][(pc' \in {"subtract", "simulation"} /\ out'.kind \in {"Field", "None"}) =>
       field'.values = Subtract(field.values, other.values).a]_vars

\* a.shape for an array of values: a sequence of rows, or the 1d empty array
values_shape(a) == IF Len(a) = 0 THEN <<0>> ELSE <<Len(a), Len(a[1])>>

\* C19 (as stated): a field produced by restriction from a field whose
\* values have shape (len(y), len(x)) has values of shape (len(y), len(x))
\* itself, for every target grid, also one that selects no row or no column.
C19_ShapeInvariant ==
  (Restricted /\ values_shape(field.values) = <<Len(field.y), Len(field.x)>>) =>
    values_shape(out.f.values) = <<Len(out.f.y), Len(out.f.x)>>

(* ------------------------------ shape spec ----------------------------- *)
\* a field whose values have more rows than the field has y-stations
InitShape ==
  /\ pc = "ready"
  /\ \E x \in SeqsUpTo(MaxNx, Coords), ny \in 1..MaxNy, s \in Seeds, extra \in 1..MaxExtra :
       field = NewField(x, linspace(ny), Rand(s, ny + extra, Len(x)), 0, "test")
  /\ other = NoField
  /\ coarse = NoField
  /\ medium = NoField
  /\ fine = NoField
  /\ grid = <<<<>>, <<>>>>
  /\ ratio = 0
  /\ stride = 0
  /\ norm = None
  /\ out = NoOut
  /\ input = NoInput

SpecShape == InitShape /\ [][NextRestrict]_vars

\* C20 (as stated): restriction of a field whose values do not have shape
\* (len(y), len(x)) fails with ShapeError and produces no field.
C20_MisshapedFails ==
  (Restricted /\ values_shape(field.values) # <<Len(field.y), Len(field.x)>>) =>
    out.kind = "ShapeError"

(* ------------------- restriction as a sub-array selection -------------- *)
\* the source indices of a within the tolerance of some station of t
Selected(a, t) == {i \in 1..Len(a) : \E j \in 1..Len(t) : Abs(a[i] - t[j]) <= Atol}

\* the elements of a finite set of integers in increasing order
Increasing(S) ==
  [k \in 1..Cardinality(S) |-> CHOOSE i \in S : Cardinality({l \in S : l < i}) = k - 1]

\* a[I] for a list of indices I
Take(a, I) == [k \in 1..Len(I) |-> a[I[k]]]

\* C25: the restricted values are field.values[J, I] with I and J the
\* increasing lists of the source indices within the tolerance of some target
\* station, the restricted x and y are field.x[I] and field.y[J], for the
\* method of Field and for the function of plotGridConvergence.py alike; a
\* source at distance exactly tol from a target is selected.
C25_SubArray ==
  Restricted =>
    LET I == Increasing(Selected(field.x, grid[1]))
        J == Increasing(Selected(field.y, grid[2]))
        r == restriction(field, grid)
    IN  /\ out.f.x = Take(field.x, I)
        /\ out.f.y = Take(field.y, J)
        /\ out.f.values = [k \in 1..Len(J) |-> Take(field.values[J[k]], I)]
        /\ r.x = out.f.x /\ r.y = out.f.y /\ r.values = out.f.values

C25_Witness ==
  /\ pc = "restricted"
  /\ field.x = <<0, 2>>
  /\ grid[1] = <<1>>
  /\ Len(field.y) = 2
  /\ grid[2] = <<field.y[2]>>
  /\ out.f.x = <<0, 2>>
  /\ out.f.values = <<field.values[2]>>
  /\ field.values[2][1] # field.values[2][2]

(* ------------------ dependence on the mask nodes only ------------------ *)
\* the arrays of values of the shape of f.values that agree with f.values at
\* every node of f within the tolerance of a node of the mask grid
AgreeOnMask(f) ==
  LET I == Selected(f.x, grid[1])
      J == Selected(f.y, grid[2])
  IN  {v \in [1..Len(f.y) -> [1..Len(f.x) -> Values]] :
         \A j \in J, i \in I : v[j][i] = f.values[j][i]}

WithValues(f, v) == [f EXCEPT !.values = v]

\* C26: the error norm and the observed order of convergence are the same
\* for any two runs whose fields have the same grids and agree at every node
\* that coincides with a node of the mask grid, whatever they hold elsewhere.
C26_MaskNodesOnly ==
  /\ pc = "difference" =>
       /\ \A v \in AgreeOnMask(field) :
            Field_get_difference(WithValues(field, v), other, MaskField, norm) = out
       /\ \A v \in AgreeOnMask(other) :
            Field_get_difference(field, WithValues(other, v), MaskField, norm) = out
  /\ pc = "order" =>
       /\ \A v \in AgreeOnMask(field) :
            observed_order_convergence(WithValues(field, v), other,
                                       WithValues(field, v), ratio, grid) = out
       /\ \A v \in AgreeOnMask(other) :
            observed_order_convergence(field, WithValues(other, v), field,
                                       ratio, grid) = out

C26_Witness ==
  /\ pc = "difference"
  /\ other.x = field.x /\ other.y = field.y
  /\ Len(field.x) = 2 /\ Len(field.y) = 2
  /\ Selected(field.x, grid[1]) = {1}
  /\ Selected(field.y, grid[2]) = {1}
  /\ field.values[2][2] # other.values[2][2]
  /\ out.kind = "float" /\ out.v # 0

(* ---------------------------- get_time_steps --------------------------- *)
\* the variables of the field operations, idle in the other specifications
fieldvars == <<field, other, coarse, medium, fine, grid, ratio, stride, norm>>

Idle ==
  /\ field = NoField /\ other = NoField
  /\ coarse = NoField /\ medium = NoField /\ fine = NoField
  /\ grid = <<<<>>, <<>>>>
  /\ ratio = 0 /\ stride = 0 /\ norm = None

\* smallest integer not below a / b, for b > 0
CeilDiv(a, b) == (a + b - 1) \div b

\* mutant: the stop value excluded, range(start, stop, step)
range_exclusive(start, stop, step) ==
  IF step = 0 THEN [kind |-> "ValueError"]
  ELSE LET n == IF step > 0 THEN CeilDiv(stop - 1 - start, step)
                ELSE CeilDiv(start - stop + 1, -step)
       IN  [kind |-> "list",
            v |-> [k \in 1..(IF n > 0 THEN n ELSE 0) |-> start + (k - 1) * step]]

\* range(start, stop, step) of Python: ValueError when step is zero
range(start, stop, step) ==
  IF step = 0 THEN [kind |-> "ValueError"]
  ELSE LET n == IF step > 0 THEN CeilDiv(stop - start, step)
                ELSE CeilDiv(start - stop, -step)
       IN  [kind |-> "list",
            v |-> [k \in 1..(IF n > 0 THEN n ELSE 0) |-> start + (k - 1) * step]]

\* the characters of the names of the directory entries: two digits and a
\* character that is not a digit
Chars == {"0", "1", "x"}

IsDigits(name) == \A k \in 1..Len(name) : name[k] \in {"0", "1"}

\* int(folder) for a string of decimal digits
RECURSIVE int(_)
int(name) ==
  IF Len(name) = 0 THEN 0
  ELSE 10 * int(SubSeq(name, 1, Len(name) - 1))
         + (IF name[Len(name)] = "1" THEN 1 ELSE 0)

\* sorted(int(folder) for folder in names): one element per name
RECURSIVE sorted(_)
sorted(names) ==
  IF names = {} THEN <<>>
  ELSE LET first == CHOOSE n \in names : \A m \in names : int(n) <= int(m)
       IN  <<int(first)>> \o sorted(names \ {first})

\* get_time_steps(time_steps_range) in a directory with the entries listdir
get_time_steps(listdir, time_steps_range) ==
  IF Len(time_steps_range) = 3
  THEN range(time_steps_range[1], time_steps_range[2] + 1, time_steps_range[3])
  ELSE LET folders == {folder \in listdir : folder[1] = "0"}
       IN  IF \E folder \in folders : ~IsDigits(folder)
           THEN [kind |-> "ValueError"]
           ELSE [kind |-> "list", v |-> sorted(folders)]

Steps == (-1)..MaxStep

Names == UNION {[1..n -> Chars] : n \in 1..MaxName}

\* the subsets of S with at most n elements
RECURSIVE SubsetsUpTo(_, _)
SubsetsUpTo(S, n) ==
  IF n = 0 THEN {{}}
  ELSE LET T == SubsetsUpTo(S, n - 1)
       IN  T \cup {e \cup {a} : e \in T, a \in S}

InitSteps ==
  /\ pc = "ready"
  /\ \E r \in {<<>>} \cup [1..2 -> Steps] \cup [1..3 -> Steps],
        d \in SubsetsUpTo(Names, MaxEntries) :
       input = [kind |-> "steps", time_steps_range |-> r, listdir |-> d]
  /\ out = NoOut
  /\ Idle

\* library/simulation.py: BarbaGroupSimulation.get_time_steps
SimulationGetTimeSteps ==
  /\ pc = "ready"
  /\ out' = get_time_steps(input.listdir, input.time_steps_range)
  /\ pc' = "simulation"
  /\ UNCHANGED <<input, fieldvars>>

\* scripts/PetIBM/ioPetIBM.py: get_time_steps
IoPetIBMGetTimeSteps ==
  /\ pc = "ready"
  /\ out' = get_time_steps(input.listdir, input.time_steps_range)
  /\ pc' = "ioPetIBM"
  /\ UNCHANGED <<input, fieldvars>>

\* scripts/cuIBM/ioCuIBM.py: get_time_steps
IoCuIBMGetTimeSteps ==
  /\ pc = "ready"
  /\ out' = get_time_steps(input.listdir, input.time_steps_range)
  /\ pc' = "ioCuIBM"
  /\ UNCHANGED <<input, fieldvars>>

NextSteps ==
  \/ SimulationGetTimeSteps
  \/ IoPetIBMGetTimeSteps
  \/ IoCuIBMGetTimeSteps

SpecSteps == InitSteps /\ [][NextSteps]_vars

StepsDone == pc \in {"simulation", "ioPetIBM", "ioCuIBM"}

\* s is a list in increasing order (equal neighbours allowed)
NonDecreasing(s) == \A k \in 1..(Len(s) - 1) : s[k] <= s[k + 1]

Elements(s) == {s[k] : k \in 1..Len(s)}

\* the time-steps first, first + stride, ... that are <= last, among the
\* integers of the window w
Arithmetic(first, last, step, w) ==
  {t \in w : t <= last /\ \E k \in 0..(2 * MaxStep + 2) : t = first + k * step}

Window == (-3 * MaxStep - 3)..(3 * MaxStep + 3)

Folders == {folder \in input.listdir : folder[1] = "0"}

Compare(comparator, a, b) == IF comparator = "less_equal" THEN a <= b ELSE a >= b

\* index clipped to the array, as numpy.take(..., mode='clip') does
Clip(i, n) == IF i < 0 THEN 0 ELSE IF i > n - 1 THEN n - 1 ELSE i

\* scipy.signal.argrelextrema(values, comparator, order=order)[0]: the
\* indices (from 0, increasing) whose value compares true with the values of
\* the order neighbours on each side, the neighbours clipped to the array
argrelextrema(values, comparator, order) ==
  LET n == Len(values)
  IN  Increasing({i \in 0..(n - 1) :
        \A sh \in 1..order :
          /\ Compare(comparator, values[i + 1], values[Clip(i + sh, n) + 1])
          /\ Compare(comparator, values[i + 1], values[Clip(i - sh, n) + 1])})

\* a[:-1]
DropLast(a) == SubSeq(a, 1, Len(a) - 1)

\* a[-2:]
LastTwo(a) == SubSeq(a, IF Len(a) > 2 THEN Len(a) - 1 ELSE 1, Len(a))

\* mutant: a candidate kept when it is at least order samples after its
\* predecessor
RemoveClose_atleast(a, order) ==
  IF Len(a) = 0 THEN [kind |-> "IndexError"]
  ELSE [kind |-> "array",
        v |-> BoolIndex(a, <<TRUE>> \o [k \in 1..(Len(a) - 1) |-> a[k + 1] - a[k] >= order])]

\* a[numpy.append(True, a[1:] - a[:-1] > order)]: the mask has one entry
\* when a is empty, and indexing the empty array with it raises IndexError
RemoveClose(a, order) ==
  IF Len(a) = 0 THEN [kind |-> "IndexError"]
  ELSE [kind |-> "array",
        v |-> BoolIndex(a, <<TRUE>> \o [k \in 1..(Len(a) - 1) |-> a[k + 1] - a[k] > order])]

\* numpy.where(numpy.logical_and(times >= limits[0], times <= limits[1]))[0];
\* the upper limit "inf" is float('inf')
TimeMask(times, limits) ==
  Increasing({i \in 0..(Len(times) - 1) :
                /\ times[i + 1] >= limits[1]
                /\ (limits[2] = "inf" \/ times[i + 1] <= limits[2])})

\* numpy.intersect1d(a, b, assume_unique=True) for two increasing arrays
intersect1d(a, b) == Increasing({a[k] : k \in 1..Len(a)} \cap {b[k] : k \in 1..Len(b)})

Extrema(minima, maxima) ==
  IF minima.kind # "array" THEN minima
  ELSE IF maxima.kind # "array" THEN maxima
  ELSE [kind |-> "arrays", minima |-> minima.v, maxima |-> maxima.v]

\* snake/force.py: Force.get_extrema(limits, order)
snake_Force_get_extrema(self, limits, order) ==
  LET minima == DropLast(argrelextrema(self.values, "less_equal", order))
      maxima == DropLast(argrelextrema(self.values, "greater_equal", order))
      mask == TimeMask(self.times, limits)
  IN  Extrema(RemoveClose(intersect1d(minima, mask), order),
              RemoveClose(intersect1d(maxima, mask), order))

\* library/force.py: Force.get_extrema(order)
library_Force_get_extrema(self, order) ==
  LET minima == DropLast(argrelextrema(self.values, "less_equal", order))
      maxima == DropLast(argrelextrema(self.values, "greater_equal", order))
  IN  Extrema(RemoveClose(minima, order), RemoveClose(maxima, order))

\* numpy.mean(values[mask]) as the pair of the sum and the number of samples,
\* with the times of the first and of the last sample of the mask
Mean(self, mask) ==
  [kind |-> "mean",
   sum |-> Sum([k \in 1..Len(mask) |-> self.values[mask[k] + 1]]),
   count |-> Len(mask),
   start |-> self.times[mask[1] + 1],
   end |-> self.times[mask[Len(mask)] + 1]]

\* numpy.arange(first, last + 1)
arange(first, last) == [k \in 1..(last - first + 1) |-> first + k - 1]

\* snake/force.py: Force.get_mean(last_period=True, order=order)
snake_Force_get_mean(self, order) ==
  LET e == snake_Force_get_extrema(self, <<0, "inf">>, order)
  IN  IF e.kind # "arrays" THEN e
      ELSE IF Len(e.minima) = 0 \/ Len(e.maxima) = 0 THEN [kind |-> "IndexError"]
      ELSE Mean(self, LastTwo(IF e.minima[Len(e.minima)] > e.maxima[Len(e.maxima)]
                              THEN e.minima ELSE e.maxima))

\* library/force.py: Force.get_mean(last_period=True, order=order)
library_Force_get_mean(self, order) ==
  LET e == library_Force_get_extrema(self, order)
  IN  IF e.kind # "arrays" THEN e
      ELSE IF Len(e.minima) = 0 \/ Len(e.maxima) = 0 THEN [kind |-> "IndexError"]
      ELSE LET last == IF e.minima[Len(e.minima)] > e.maxima[Len(e.maxima)]
                       THEN e.minima ELSE e.maxima
           IN  IF Len(last) < 2 THEN [kind |-> "IndexError"]
               ELSE Mean(self, arange(last[Len(last) - 1], last[Len(last)]))

\* a force signal sampled at the times 0, 1, 2, ...
InitForce ==
  /\ pc = "ready"
  /\ \E values \in SeqsUpTo(MaxLen, 0..MaxForce), order \in 1..MaxOrder :
       input = [kind |-> "force", order |-> order,
                self |-> [times |-> [i \in 1..Len(values) |-> i - 1], values |-> values]]
  /\ out = NoOut
  /\ Idle

SnakeGetExtrema ==
  /\ pc = "ready"
  /\ out' = snake_Force_get_extrema(input.self, <<0, "inf">>, input.order)
  /\ pc' = "snake_extrema"
  /\ UNCHANGED <<input, fieldvars>>

LibraryGetExtrema ==
  /\ pc = "ready"
  /\ out' = library_Force_get_extrema(input.self, input.order)
  /\ pc' = "library_extrema"
  /\ UNCHANGED <<input, fieldvars>>

SnakeGetMean ==
  /\ pc = "ready"
  /\ out' = snake_Force_get_mean(input.self, input.order)
  /\ pc' = "snake_mean"
  /\ UNCHANGED <<input, fieldvars>>

LibraryGetMean ==
  /\ pc = "ready"
  /\ out' = library_Force_get_mean(input.self, input.order)
  /\ pc' = "library_mean"
  /\ UNCHANGED <<input, fieldvars>>

NextForce ==
  \/ SnakeGetExtrema
  \/ LibraryGetExtrema
  \/ SnakeGetMean
  \/ LibraryGetMean

SpecForce == InitForce /\ [][NextForce]_vars

\* the extrema of the signal, and the kind of extrema that occurs last
SignalExtrema == library_Force_get_extrema(input.self, input.order)

LastKind ==
  IF SignalExtrema.minima[Len(SignalExtrema.minima)]
       > SignalExtrema.maxima[Len(SignalExtrema.maxima)]
  THEN SignalExtrema.minima ELSE SignalExtrema.maxima

\* the signal has a last period: extrema of both kinds, two of the last kind
HasLastPeriod ==
  /\ SignalExtrema.kind = "arrays"
  /\ Len(SignalExtrema.minima) > 0 /\ Len(SignalExtrema.maxima) > 0
  /\ Len(LastKind) >= 2

\* the indices of every sample of the last period
LastPeriod == arange(LastKind[Len(LastKind) - 1], LastKind[Len(LastKind)])

\* C24 (as stated): with last_period=True both implementations of
\* Force.get_mean return the mean of every sample from the second-to-last to
\* the last extremum of the kind that occurs last, with the times of these
\* two extrema as start and end.
C24_LastPeriodMean ==
  (pc \in {"snake_mean", "library_mean"} /\ HasLastPeriod) =>
    /\ out.kind = "mean"
    /\ out.sum * Len(LastPeriod)
         = Sum([k \in 1..Len(LastPeriod) |-> input.self.values[LastPeriod[k] + 1]]) * out.count
    /\ out.start = input.self.times[LastPeriod[1] + 1]
    /\ out.end = input.self.times[LastPeriod[Len(LastPeriod)] + 1]

ExtremaDone == pc \in {"snake_extrema", "library_extrema"}

\* the entries of a are increasing and more than order apart
Spaced(a, order) == \A k \in 1..(Len(a) - 1) : a[k + 1] - a[k] > order

\* C27 (as stated): for every signal and every order >= 1, get_extrema
\* returns increasing index arrays whose consecutive entries are more than
\* order samples apart.
C27_ExtremaSpaced ==
  ExtremaDone =>
    /\ out.kind = "arrays"
    /\ Spaced(out.minima, input.order)
    /\ Spaced(out.maxima, input.order)

\* the candidates of the two kinds, before the close ones are removed
Candidates(comparator) == DropLast(argrelextrema(input.self.values, comparator, input.order))

\* C27 (amended): get_extrema raises IndexError when the signal has no
\* candidate minimum or no candidate maximum left; for every other signal and
\* every order >= 1 it returns increasing index arrays whose consecutive
\* entries are more than order samples apart.
C27_ExtremaSpacedOrRaises ==
  ExtremaDone =>
    IF Len(Candidates("less_equal")) = 0 \/ Len(Candidates("greater_equal")) = 0
    THEN out.kind = "IndexError"
    ELSE /\ out.kind = "arrays"
         /\ Spaced(out.minima, input.order)
         /\ Spaced(out.maxima, input.order)

C27_Witness ==
  /\ pc = "snake_extrema"
  /\ out.kind = "arrays"
  /\ input.order = 1
  /\ Candidates("less_equal") = <<0, 1, 3>>
  /\ out.minima = <<0, 3>>

(* ----------------------------- solver readers -------------------------- *)
\* largest number of cells of a direction and largest station (in cell units)
MaxCells == 4
MaxStation == 4

\* an optional slice bound: <<>> is Python's None, <<k>> the integer k
NoBound == <<>>

\* the positions (from 1) selected by the slice [lo:hi] of an axis of length n
Indices(n, lo, hi) ==
  LET Norm(k) == IF k < 0 THEN (IF n + k < 0 THEN 0 ELSE n + k)
                 ELSE (IF k > n THEN n ELSE k)
      start == IF lo = NoBound THEN 0 ELSE Norm(lo[1])
      stop  == IF hi = NoBound THEN n ELSE Norm(hi[1])
  IN  [k \in 1..(stop - start) |-> start + k]

\* a[lo:hi] for a 1d array a
Slice1(a, lo, hi) ==
  LET idx == Indices(Len(a), lo, hi)
  IN  [k \in 1..Len(idx) |-> a[idx[k]]]

\* a 2d numpy array: its shape and its entries in row-major order
ndarray(m, n, data) == [shape |-> <<m, n>>, data |-> data]

\* a[j, i], counting from 1
At(a, j, i) == a.data[(j - 1) * a.shape[2] + i]

\* the (m, n) array whose entry [j, i] is F(j, i)
FromFunction(m, n, F(_, _)) ==
  ndarray(m, n, [k \in 1..(m * n) |-> F(((k - 1) \div n) + 1, ((k - 1) % n) + 1)])

\* data.reshape((m, n)) for a flat array whose size is m * n
reshape(data, m, n) == ndarray(m, n, data)

\* a.flatten()
flatten(a) == a.data

\* a[rlo:rhi, clo:chi]
Slice2(a, rlo, rhi, clo, chi) ==
  LET rows == Indices(a.shape[1], rlo, rhi)
      cols == Indices(a.shape[2], clo, chi)
  IN  FromFunction(Len(rows), Len(cols), LAMBDA j, i : At(a, rows[j], cols[i]))

\* numpy.outer(a, b)
outer(a, b) == FromFunction(Len(a), Len(b), LAMBDA j, i : a[j] * b[i])

\* numpy.ones(n)
numpy_ones(n) == [i \in 1..n |-> 1]

\* a[1:] - a[:-1]
Widths(a) == [i \in 1..(Len(a) - 1) |-> a[i + 1] - a[i]]

\* 0.5 * (a[:-1] + a[1:]); the stations are even, so the half is exact
Midpoints(a) == [i \in 1..(Len(a) - 1) |-> (a[i] + a[i + 1]) \div 2]

\* a * b and a / b entry by entry with broadcasting; the quotients of the
\* fluxes by the cell widths are exact
Multiply(a, b) ==
  FromFunction(a.shape[1], a.shape[2], LAMBDA j, i : At(a, j, i) * At(b, j, i))

Divide_kept(a, b) ==
  LET m == Broadcast(a.shape[1], b.shape[1])
      n == Broadcast(a.shape[2], b.shape[2])
  IN  IF m = -1 \/ n = -1 THEN [kind |-> "ValueError"] ELSE a

Divide(a, b) ==
  LET m == Broadcast(a.shape[1], b.shape[1])
      n == Broadcast(a.shape[2], b.shape[2])
      Pick(c, j, i) == At(c, IF c.shape[1] = 1 THEN 1 ELSE j,
                             IF c.shape[2] = 1 THEN 1 ELSE i)
  IN  IF m = -1 \/ n = -1 THEN [kind |-> "ValueError"]
      ELSE FromFunction(m, n, LAMBDA j, i : Pick(a, j, i) \div Pick(b, j, i))

\* an exception in place of an array
IsError(a) == "kind" \in DOMAIN a

\* 0.5 * (a + b) for two arrays of the same shape; the velocities are even,
\* so the half is exact
HalfSum(a, b) ==
  IF a.shape # b.shape THEN [kind |-> "ValueError"]
  ELSE FromFunction(a.shape[1], a.shape[2],
                    LAMBDA j, i : (At(a, j, i) + At(b, j, i)) \div 2)

\* -1 if d in periodic_directions else None
StopIndex_none(periodic_directions, d) == NoBound

StopIndex(periodic_directions, d) ==
  IF d \in periodic_directions THEN <<-1>> ELSE NoBound

\* nx if d in periodic_directions else nx - 1
FluxCount(periodic_directions, d, n) ==
  IF d \in periodic_directions THEN n ELSE n - 1

\* library/PetIBM/simulation.py: PetIBMSimulation.read_velocity, 2d branch
PetIBMSimulation_read_velocity(self_grid, qx, qy, periodic_directions, time_step) ==
  LET x == self_grid[1]
      y == self_grid[2]
      dx == Widths(x)
      dy == Widths(y)
      nx == Len(dx)
      ny == Len(dy)
      xu == Slice1(x, <<1>>, <<-1>>)
      yu == Midpoints(y)
      xv == Midpoints(x)
      yv == Slice1(y, <<1>>, <<-1>>)
      wx == FluxCount(periodic_directions, "x", nx)
      hy == FluxCount(periodic_directions, "y", ny)
  IN  IF Len(qx) # ny * wx \/ Len(qy) # hy * nx THEN [kind |-> "ValueError"]
      ELSE LET u == Divide(Slice2(reshape(qx, ny, wx), NoBound, NoBound,
                                  NoBound, StopIndex(periodic_directions, "x")),
                           outer(dy, numpy_ones(nx - 1)))
               v == Divide(Slice2(reshape(qy, hy, nx),
                                  NoBound, StopIndex(periodic_directions, "y"),
                                  NoBound, NoBound),
                           outer(numpy_ones(ny - 1), dx))
           IN  IF IsError(u) \/ IsError(v) THEN [kind |-> "ValueError"]
               ELSE [kind |-> "velocity",
                     x_velocity |-> NewField(xu, yu, u, time_step, "x-velocity"),
                     y_velocity |-> NewField(xv, yv, v, time_step, "y-velocity")]

\* scripts/PetIBM/ioPetIBM.py: read_velocity, 2d branch, with its two asserts
ioPetIBM_read_velocity(coords, qx, qy, periodic, time_step) ==
  LET x == coords[1]
      y == coords[2]
      dx == Widths(x)
      dy == Widths(y)
      nx == Len(dx)
      ny == Len(dy)
      xu == Slice1(x, <<1>>, <<-1>>)
      yu == Midpoints(y)
      xv == Midpoints(x)
      yv == Slice1(y, <<1>>, <<-1>>)
      wx == FluxCount(periodic, "x", nx)
      hy == FluxCount(periodic, "y", ny)
  IN  IF Len(qx) # ny * wx \/ Len(qy) # hy * nx THEN [kind |-> "ValueError"]
      ELSE LET u == Divide(Slice2(reshape(qx, ny, wx), NoBound, NoBound,
                                  NoBound, StopIndex(periodic, "x")),
                           outer(dy, numpy_ones(nx - 1)))
               v == Divide(Slice2(reshape(qy, hy, nx),
                                  NoBound, StopIndex(periodic, "y"),
                                  NoBound, NoBound),
                           outer(numpy_ones(ny - 1), dx))
           IN  IF IsError(u) \/ IsError(v) THEN [kind |-> "ValueError"]
               ELSE IF <<Len(yu), Len(xu)>> # u.shape \/ <<Len(yv), Len(xv)>> # v.shape
                    THEN [kind |-> "AssertionError"]
               ELSE [kind |-> "velocity",
                     x_velocity |-> NewField(xu, yu, u, time_step, "u-velocity"),
                     y_velocity |-> NewField(xv, yv, v, time_step, "v-velocity")]

\* snake/petibm/simulation.py: PetIBMSimulation.read_fluxes, 2d branch
snake_PetIBMSimulation_read_fluxes(self_grid, qx, qy, periodic_directions, time_step) ==
  LET x == self_grid[1]
      y == self_grid[2]
      nx == Len(x) - 1
      ny == Len(y) - 1
      wx == FluxCount(periodic_directions, "x", nx)
      hy == FluxCount(periodic_directions, "y", ny)
  IN  IF Len(qx) # ny * wx \/ Len(qy) # hy * nx THEN [kind |-> "ValueError"]
      ELSE [kind |-> "fluxes",
            qx |-> NewField(Slice1(x, <<1>>, <<-1>>), Midpoints(y),
                            Slice2(reshape(qx, ny, wx), NoBound, NoBound,
                                   NoBound, StopIndex(periodic_directions, "x")),
                            time_step, "x-flux"),
            qy |-> NewField(Midpoints(x), Slice1(y, <<1>>, <<-1>>),
                            Slice2(reshape(qy, hy, nx),
                                   NoBound, StopIndex(periodic_directions, "y"),
                                   NoBound, NoBound),
                            time_step, "y-flux")]

\* library/cuIBM/simulation.py: CuIBMSimulation.read_velocity; q holds the
\* x-fluxes then the y-fluxes
CuIBMSimulation_read_velocity(self_grid, q, time_step) ==
  LET x == self_grid[1]
      y == self_grid[2]
      nx == Len(x) - 1
      ny == Len(y) - 1
      dx == Widths(x)
      dy == Widths(y)
      offset == (nx - 1) * ny
  IN  IF Len(q) < offset + nx * (ny - 1) THEN [kind |-> "IndexError"]
      ELSE LET u == [k \in 1..((nx - 1) * ny) |-> q[k] \div dy[((k - 1) \div (nx - 1)) + 1]]
               v == [k \in 1..(nx * (ny - 1)) |-> q[offset + k] \div dx[((k - 1) % nx) + 1]]
           IN  [kind |-> "velocity",
                x_velocity |-> NewField(Slice1(x, <<1>>, <<-1>>), Midpoints(y),
                                        reshape(u, ny, nx - 1), time_step, "x-velocity"),
                y_velocity |-> NewField(Midpoints(x), Slice1(y, <<1>>, <<-1>>),
                                        reshape(v, ny - 1, nx), time_step, "y-velocity")]

\* library/PetIBM/simulation.py: PetIBMSimulation.read_pressure, 2d branch
PetIBMSimulation_read_pressure(self_grid, phi, time_step) ==
  LET xp == Midpoints(self_grid[1])
      yp == Midpoints(self_grid[2])
      nx == Len(xp)
      ny == Len(yp)
  IN  IF Len(phi) # ny * nx THEN [kind |-> "ValueError"]
      ELSE [kind |-> "pressure",
            pressure |-> NewField(xp, yp, reshape(phi, ny, nx), time_step, "pressure")]

\* library/cuIBM/simulation.py: CuIBMSimulation.read_pressure; the file holds
\* the pressure then the body forces
CuIBMSimulation_read_pressure(self_grid, lambda, time_step) ==
  LET x == self_grid[1]
      y == self_grid[2]
      nx == Len(x) - 1
      ny == Len(y) - 1
      p == Slice1(lambda, NoBound, <<nx * ny>>)
  IN  IF Len(p) # nx * ny THEN [kind |-> "ValueError"]
      ELSE [kind |-> "pressure",
            pressure |-> NewField(Midpoints(x), Midpoints(y), reshape(p, nx, ny),
                                  time_step, "pressure")]

\* 0.5 * (u[1:-1, :-1] + u[1:-1, 1:])
InterpolateX_allrows(u) ==
  HalfSum(Slice2(u, NoBound, NoBound, NoBound, <<-1>>),
          Slice2(u, NoBound, NoBound, <<1>>, NoBound))

InterpolateX(u) ==
  HalfSum(Slice2(u, <<1>>, <<-1>>, NoBound, <<-1>>),
          Slice2(u, <<1>>, <<-1>>, <<1>>, NoBound))

\* 0.5 * (v[:-1, 1:-1] + v[1:, 1:-1])
InterpolateY(v) ==
  HalfSum(Slice2(v, NoBound, <<-1>>, <<1>>, <<-1>>),
          Slice2(v, <<1>>, NoBound, <<1>>, <<-1>>))

\* library/simulation.py: BarbaGroupSimulation.get_velocity_cell_centers, 2d
get_velocity_cell_centers(x_velocity, y_velocity) ==
  LET x_centers == Slice1(y_velocity.x, <<1>>, <<-1>>)
      y_centers == Slice1(x_velocity.y, <<1>>, <<-1>>)
      u == InterpolateX(x_velocity.values)
      v == InterpolateY(y_velocity.values)
  IN  IF IsError(u) \/ IsError(v) THEN [kind |-> "ValueError"]
      ELSE IF <<Len(y_centers), Len(x_centers)>> # u.shape
              \/ <<Len(y_centers), Len(x_centers)>> # v.shape
           THEN [kind |-> "AssertionError"]
      ELSE [kind |-> "centers",
            x_velocity |-> NewField(x_centers, y_centers, u, None, None),
            y_velocity |-> NewField(x_centers, y_centers, v, None, None)]

\* the strictly increasing arrays of n entries of S
IncreasingSeqs(n, S) ==
  {a \in [1..n -> S] : \A i \in 1..(n - 1) : a[i] < a[i + 1]}

\* the cell-boundary stations of a direction of n cells, on even coordinates
Stations(n) == IncreasingSeqs(n + 1, {2 * k : k \in 0..MaxStation})

\* numpy.random.rand(m, n) as a 2d array of even entries
rand(seed, m, n) == FromFunction(m, n, LAMBDA j, i : 2 * Rand(seed, m, n)[j][i])

\* the velocity the solver writes on the boundary of a periodic direction
Boundary == 2 * (MaxVal + 1)

\* the array a with one more column (d = "x") or row (d = "y") of c
Extended(a, d, c) ==
  LET m == a.shape[1] + (IF d = "y" THEN 1 ELSE 0)
      n == a.shape[2] + (IF d = "x" THEN 1 ELSE 0)
  IN  FromFunction(m, n, LAMBDA j, i : IF j <= a.shape[1] /\ i <= a.shape[2]
                                       THEN At(a, j, i) ELSE c)

\* a solution of the solver on a grid: the velocities u and v on the
\* staggered nodes and the pressure p at the cell centres, the PetIBM files
\* qx.dat, qy.dat and phi.dat, and the cuIBM files q and lambda
InitReaders ==
  /\ pc = "ready"
  /\ \E nx \in 1..MaxCells, ny \in 1..MaxCells, seed \in Seeds,
        periodic_directions \in SUBSET {"x", "y"} :
       \E x \in Stations(nx), y \in Stations(ny) :
         LET dx == Widths(x)
             dy == Widths(y)
             u == rand(seed, ny, nx - 1)
             v == rand(seed + 1, ny - 1, nx)
             p == rand(seed + 2, ny, nx)
             ux == IF "x" \in periodic_directions THEN Extended(u, "x", Boundary) ELSE u
             vy == IF "y" \in periodic_directions THEN Extended(v, "y", Boundary) ELSE v
         IN  input = [kind |-> "solution",
                      grid |-> <<x, y>>,
                      periodic_directions |-> periodic_directions,
                      time_step |-> 0,
                      u |-> u, v |-> v, p |-> p,
                      qx |-> flatten(Multiply(ux, outer(dy, numpy_ones(ux.shape[2])))),
                      qy |-> flatten(Multiply(vy, outer(numpy_ones(vy.shape[1]), dx))),
                      phi |-> flatten(p),
                      q |-> flatten(Multiply(u, outer(dy, numpy_ones(nx - 1))))
                            \o flatten(Multiply(v, outer(numpy_ones(ny - 1), dx))),
                      lambda |-> flatten(p) \o <<Boundary>>]
  /\ out = NoOut
  /\ Idle

\* library/PetIBM/simulation.py: PetIBMSimulation.read_velocity
LibraryReadVelocity ==
  /\ pc = "ready"
  /\ out' = PetIBMSimulation_read_velocity(input.grid, input.qx, input.qy,
                                           input.periodic_directions, input.time_step)
  /\ pc' = "library_velocity"
  /\ UNCHANGED <<input, fieldvars>>

\* scripts/PetIBM/ioPetIBM.py: read_velocity
IoPetIBMReadVelocity ==
  /\ pc = "ready"
  /\ out' = ioPetIBM_read_velocity(input.grid, input.qx, input.qy,
                                   input.periodic_directions, input.time_step)
  /\ pc' = "ioPetIBM_velocity"
  /\ UNCHANGED <<input, fieldvars>>

\* snake/petibm/simulation.py: PetIBMSimulation.read_fluxes
SnakeReadFluxes ==
  /\ pc = "ready"
  /\ out' = snake_PetIBMSimulation_read_fluxes(input.grid, input.qx, input.qy,
                                               input.periodic_directions, input.time_step)
  /\ pc' = "snake_fluxes"
  /\ UNCHANGED <<input, fieldvars>>

\* library/cuIBM/simulation.py: CuIBMSimulation.read_velocity
CuIBMReadVelocity ==
  /\ pc = "ready"
  /\ out' = CuIBMSimulation_read_velocity(input.grid, input.q, input.time_step)
  /\ pc' = "cuIBM_velocity"
  /\ UNCHANGED <<input, fieldvars>>

\* library/PetIBM/simulation.py: PetIBMSimulation.read_pressure
PetIBMReadPressure ==
  /\ pc = "ready"
  /\ out' = PetIBMSimulation_read_pressure(input.grid, input.phi, input.time_step)
  /\ pc' = "PetIBM_pressure"
  /\ UNCHANGED <<input, fieldvars>>

\* library/cuIBM/simulation.py: CuIBMSimulation.read_pressure
CuIBMReadPressure ==
  /\ pc = "ready"
  /\ out' = CuIBMSimulation_read_pressure(input.grid, input.lambda, input.time_step)
  /\ pc' = "cuIBM_pressure"
  /\ UNCHANGED <<input, fieldvars>>

\* library/simulation.py: BarbaGroupSimulation.get_velocity_cell_centers on
\* the velocity fields a reader of the library has stored in the simulation
GetVelocityCellCenters ==
  /\ pc \in {"library_velocity", "cuIBM_velocity"}
  /\ out.kind = "velocity"
  /\ out' = get_velocity_cell_centers(out.x_velocity, out.y_velocity)
  /\ pc' = "centers"
  /\ UNCHANGED <<input, fieldvars>>

NextReaders ==
  \/ LibraryReadVelocity
  \/ IoPetIBMReadVelocity
  \/ SnakeReadFluxes
  \/ CuIBMReadVelocity
  \/ PetIBMReadPressure
  \/ CuIBMReadPressure
  \/ GetVelocityCellCenters

SpecReaders == InitReaders /\ [][NextReaders]_vars

(* ------------------------ claims on the solver readers ----------------- *)
\* the interior stations a[1:-1] and the midpoints of a, stated on positions
IsInterior(b, a) == Len(b) = Len(a) - 2 /\ \A i \in 1..Len(b) : b[i] = a[i + 1]
IsMidpoints(b, a) == Len(b) = Len(a) - 1 /\ \A i \in 1..Len(b) : 2 * b[i] = a[i] + a[i + 1]

\* f lies on the x-velocity nodes, g on the y-velocity nodes of the input grid
OnStaggeredNodes(f, g) ==
  /\ IsInterior(f.x, input.grid[1]) /\ IsMidpoints(f.y, input.grid[2])
  /\ IsMidpoints(g.x, input.grid[1]) /\ IsInterior(g.y, input.grid[2])

VelocityRead == pc \in {"library_velocity", "ioPetIBM_velocity"}

\* C21: when the flux files hold qx = u * dy and qy = v * dx on a 2d grid,
\* read_velocity returns the x-velocity u on (x[1:-1], midpoints of y) and
\* the y-velocity v on (midpoints of x, y[1:-1]); read_fluxes of the snake
\* package returns the fluxes themselves on the same nodes
C21_VelocityRoundTrip ==
  /\ (VelocityRead /\ input.periodic_directions = {}) =>
       /\ out.kind = "velocity"
       /\ out.x_velocity.values = input.u
       /\ out.y_velocity.values = input.v
       /\ OnStaggeredNodes(out.x_velocity, out.y_velocity)
  /\ (pc = "snake_fluxes" /\ input.periodic_directions = {}) =>
       /\ out.kind = "fluxes"
       /\ flatten(out.qx.values) = input.qx
       /\ flatten(out.qy.values) = input.qy
       /\ out.qx.values.shape = input.u.shape
       /\ out.qy.values.shape = input.v.shape
       /\ OnStaggeredNodes(out.qx, out.qy)

\* a grid of 3 by 2 cells of unequal heights and widths with a velocity that
\* is not zero has been read back
C21_Witness ==
  /\ pc = "library_velocity"
  /\ input.periodic_directions = {}
  /\ input.grid = <<<<0, 2, 6, 8>>, <<0, 4, 6>>>>
  /\ \E k \in 1..Len(input.u.data) : input.u.data[k] # 0
  /\ \E k \in 1..Len(input.v.data) : input.v.data[k] # 0
  /\ out.kind = "velocity"
  /\ out.x_velocity.values = input.u
  /\ out.x_velocity.values.shape = <<2, 2>>
  /\ out.y_velocity.values.shape = <<1, 3>>

\* numbers of cells of the input grid
Nx == Len(input.grid[1]) - 1
Ny == Len(input.grid[2]) - 1

\* the file sizes C29 is about: ny*(nx-1) x-fluxes, ny*nx when x is periodic;
\* (ny-1)*nx y-fluxes, ny*nx when y is periodic
FluxFileSizes ==
  /\ Len(input.qx) = Ny * (IF "x" \in input.periodic_directions THEN Nx ELSE Nx - 1)
  /\ Len(input.qy) = (IF "y" \in input.periodic_directions THEN Ny ELSE Ny - 1) * Nx

\* a has the shape (len(f.y), len(f.x)) = (m, n)
ShapeIs(f, m, n) == f.values.shape = <<m, n>> /\ <<Len(f.y), Len(f.x)>> = <<m, n>>

\* the array a is the flat file without its last column (d = "x") or row
IsFileWithoutLast(a, file, d, periodic_directions) ==
  LET w == a.shape[2] + (IF d = "x" /\ d \in periodic_directions THEN 1 ELSE 0)
  IN  \A j \in 1..a.shape[1] : \A i \in 1..a.shape[2] :
        At(a, j, i) = file[(j - 1) * w + i]

\* C29: for every subset of periodic directions the PetIBM read_velocity (and
\* read_fluxes) returns, without failing an assertion, u of shape
\* (ny, nx-1) = (len(yu), len(xu)) and v of shape (ny-1, nx) = (len(yv), len(xv)),
\* having dropped the last column of a periodic qx and the last row of a
\* periodic qy
C29_PeriodicShapes ==
  /\ (VelocityRead /\ FluxFileSizes) =>
       /\ out.kind = "velocity"
       /\ ShapeIs(out.x_velocity, Ny, Nx - 1)
       /\ ShapeIs(out.y_velocity, Ny - 1, Nx)
       /\ out.x_velocity.values = input.u
       /\ out.y_velocity.values = input.v
  /\ (pc = "snake_fluxes" /\ FluxFileSizes) =>
       /\ out.kind = "fluxes"
       /\ ShapeIs(out.qx, Ny, Nx - 1)
       /\ ShapeIs(out.qy, Ny - 1, Nx)
       /\ IsFileWithoutLast(out.qx.values, input.qx, "x", input.periodic_directions)
       /\ IsFileWithoutLast(out.qy.values, input.qy, "y", input.periodic_directions)

\* both directions periodic on 3 by 2 cells: 6 x-fluxes and 6 y-fluxes read
\* into a (2, 2) x-velocity and a (1, 3) y-velocity
C29_Witness ==
  /\ pc = "ioPetIBM_velocity"
  /\ input.periodic_directions = {"x", "y"}
  /\ Nx = 3 /\ Ny = 2
  /\ Len(input.qx) = 6 /\ Len(input.qy) = 6
  /\ out.kind = "velocity"
  /\ out.x_velocity.values.shape = <<2, 2>>
  /\ out.y_velocity.values.shape = <<1, 3>>
  /\ \E k \in 1..4 : out.x_velocity.values.data[k] # 0

\* C28: on a grid of nx >= 3 by ny >= 3 cells, get_velocity_cell_centers
\* applied to the staggered velocities a reader returned (x-velocity of shape
\* (ny, nx-1), y-velocity of shape (ny-1, nx)) fails no assertion: the
\* cell-centred u and v both have the shape (len(y_centers), len(x_centers))
C28_CellCentersShapes ==
  (pc = "centers" /\ Nx >= 3 /\ Ny >= 3) =>
    /\ out.kind = "centers"
    /\ ShapeIs(out.x_velocity, Ny - 2, Nx - 2)
    /\ ShapeIs(out.y_velocity, Ny - 2, Nx - 2)
    /\ out.x_velocity.x = out.y_velocity.x
    /\ out.x_velocity.y = out.y_velocity.y

\* the velocities read on 4 by 3 cells have been interpolated to the 2 by 1
\* inner cell centres
C28_Witness ==
  /\ pc = "centers"
  /\ Nx = 4 /\ Ny = 3
  /\ out.kind = "centers"
  /\ out.x_velocity.values.shape = <<1, 2>>
  /\ out.y_velocity.values.shape = <<1, 2>>
  /\ Len(out.x_velocity.x) = 2 /\ Len(out.x_velocity.y) = 1

\* the pressure field f lies at the cell centres, has values of shape
\* (ny, nx) = (len(y), len(x)) and holds at [j, i] the pressure of the cell in
\* row j and column i of the row-major output of the solver
IsPressureOfCells(f) ==
  /\ IsMidpoints(f.x, input.grid[1]) /\ IsMidpoints(f.y, input.grid[2])
  /\ ShapeIs(f, Ny, Nx)
  /\ \A j \in 1..Ny : \A i \in 1..Nx : At(f.values, j, i) = input.phi[(j - 1) * Nx + i]

\* C23: the PetIBM and the cuIBM read_pressure both return a pressure field
\* at the cell centres whose values have the shape (ny, nx) = (len(y), len(x)),
\* entry [j, i] being the pressure of the cell in row j and column i
C23_PressureShape ==
  pc \in {"PetIBM_pressure", "cuIBM_pressure"} =>
    out.kind = "pressure" /\ IsPressureOfCells(out.pressure)

(* ------------------------------- read_grid ----------------------------- *)
\* largest number of directions of a grid
MaxDim == 3

\* numpy.cumsum(a)
cumsum(a) == [i \in 1..Len(a) |-> Sum(SubSeq(a, 1, i))]

\* numpy.split(ary, indices): ary[:i1], ary[i1:i2], ..., ary[ik:]
split(ary, indices) ==
  [d \in 1..(Len(indices) + 1) |->
     Slice1(ary, IF d = 1 THEN NoBound ELSE <<indices[d - 1]>>,
                 IF d > Len(indices) THEN NoBound ELSE <<indices[d]>>)]

\* numpy.cumsum(nCells[:-1] + 1)
SplitPoints_cells(nCells) == cumsum(Slice1(nCells, NoBound, <<-1>>))

SplitPoints(nCells) ==
  cumsum(AddScalar1(Slice1(nCells, NoBound, <<-1>>), 1))

\* the concatenation of the arrays of a list
RECURSIVE Concatenate(_)
Concatenate(arrays) ==
  IF Len(arrays) = 0 THEN <<>>
  ELSE arrays[1] \o Concatenate(Tail(arrays))

\* the grid file: the numbers of cells on the first line, then one station
\* per line, direction after direction. A line written with '%.6f' is held
\* as the multiple of 10^-6 it denotes, which numpy.loadtxt reads back
write_grid(stations) ==
  [first_line |-> [d \in 1..Len(stations) |-> Len(stations[d]) - 1],
   lines |-> Concatenate(stations)]

\* library/PetIBM/simulation.py: PetIBMSimulation.read_grid
PetIBMSimulation_read_grid(file) ==
  LET nCells == file.first_line
      coords == file.lines
  IN  [kind |-> "grid", grid |-> split(coords, SplitPoints(nCells))]

\* snake/petibm/simulation.py: PetIBMSimulation.read_grid
snake_PetIBMSimulation_read_grid(file) ==
  LET n_cells == file.first_line
      coords == file.lines
  IN  [kind |-> "grid", grid |-> split(coords, SplitPoints(n_cells))]

\* a grid file of 2 or 3 directions of 1..MaxCells cells each
InitGrid ==
  /\ pc = "ready"
  /\ \E dim \in 2..MaxDim :
       \E stations \in [1..dim -> UNION {IncreasingSeqs(n + 1, 0..MaxStation) : n \in 1..MaxCells}] :
         input = [kind |-> "grid file", stations |-> stations, file |-> write_grid(stations)]
  /\ out = NoOut
  /\ Idle

\* library/PetIBM/simulation.py: PetIBMSimulation.read_grid
LibraryReadGrid ==
  /\ pc = "ready"
  /\ out' = PetIBMSimulation_read_grid(input.file)
  /\ pc' = "library_grid"
  /\ UNCHANGED <<input, fieldvars>>

\* snake/petibm/simulation.py: PetIBMSimulation.read_grid
SnakeReadGrid ==
  /\ pc = "ready"
  /\ out' = snake_PetIBMSimulation_read_grid(input.file)
  /\ pc' = "snake_grid"
  /\ UNCHANGED <<input, fieldvars>>

NextGrid ==
  \/ LibraryReadGrid
  \/ SnakeReadGrid

SpecGrid == InitGrid /\ [][NextGrid]_vars

\* the position in the file of station k of direction d
LineOf(d, k) ==
  Sum([e \in 1..(d - 1) |-> input.file.first_line[e] + 1]) + k

\* C22: from a grid file whose first line lists the numbers of cells n_d
\* and whose next lines list the n_d + 1 stations of each direction in turn,
\* read_grid returns one array per direction, in the same order, array d
\* holding exactly the n_d + 1 stations of direction d (2 and 3 directions)
C22_GridRoundTrip ==
  pc \in {"library_grid", "snake_grid"} =>
    /\ out.kind = "grid"
    /\ Len(out.grid) = Len(input.file.first_line)
    /\ \A d \in 1..Len(out.grid) :
         /\ Len(out.grid[d]) = input.file.first_line[d] + 1
         /\ \A k \in 1..Len(out.grid[d]) : out.grid[d][k] = input.file.lines[LineOf(d, k)]
    /\ out.grid = input.stations

\* a file of three directions of 2, 1 and 3 cells has been read back
C22_Witness ==
  /\ pc = "snake_grid"
  /\ input.file.first_line = <<2, 1, 3>>
  /\ input.file.lines = <<0, 1, 3, 2, 4, 0, 1, 2, 3>>
  /\ out.grid = <<<<0, 1, 3>>, <<2, 4>>, <<0, 1, 2, 3>>>>

====
